---- MODULE Spec2Model ----
(***************************************************************************)
(* State-machine model of the ASN.1 value-notation scanner of asn1go      *)
(* (scanner.go, decode.go).  A scanner is a record; every state function  *)
(* of scanner.go is an operator from (scanner, byte) to the scanner after *)
(* the call and the opcode returned.  Bytes are their numeric values.     *)
(* Spec runs Valid and Unmarshal on one input and one scanner on two      *)
(* inputs; SpecDirect is a caller of reset, step and eof; SpecConc is two *)
(* goroutines calling Valid; SpecConcat scans an input of two values.     *)
(***************************************************************************)
EXTENDS Integers, Sequences, FiniteSets, TLC

\* ------------------------------------------------------------------ bytes
\* The byte values the model names (ASCII).
Ch == [ tab |-> 9, nl |-> 10, cr |-> 13, sp |-> 32, bang |-> 33, dquote |-> 34,
        squote |-> 39, plus |-> 43, comma |-> 44, minus |-> 45, dot |-> 46,
        d0 |-> 48, d1 |-> 49, d2 |-> 50, d9 |-> 57, colon |-> 58, eq |-> 61,
        A |-> 65, E |-> 69, H |-> 72, L |-> 76, N |-> 78, T |-> 84, U |-> 85,
        X |-> 88, Z |-> 90, backslash |-> 92, underscore |-> 95,
        a |-> 97, d |-> 100, e |-> 101, i |-> 105, m |-> 109, n |-> 110,
        p |-> 112, t |-> 116, y |-> 121, z |-> 122,
        lbrace |-> 123, rbrace |-> 125, ctl |-> 1 ]

\* ------------------------------------------------------------------ bounds
\* maxNestingDepth is 10000 in scanner.go:153; the model scales it down so
\* that the depth limit is reached within MaxLen bytes.
maxNestingDepth == 3
\* Longest input delivered byte by byte from the free alphabet.
MaxLen == 16
\* Longest input produced by the value-notation grammar.
GenLen == 50
\* Longest first input of a scanner that is used for two scans.
MaxLenA == 8
\* Most calls of reset, step and eof made by a direct caller of the scanner.
MaxOps == 12
\* Longest first value, and longest input after it, of an input that is
\* scanned whole by one call and from its second part on by another.
MaxLenV1 == 26
MaxLenV2 == 8
\* The stack length above which freeScanner drops the stack: 1024 in
\* scanner.go:109, scaled down with maxNestingDepth.
poolMaxStack == 2
\* Most Valid calls made one after another by the two concurrent callers.
MaxCalls == 3

\* ------------------------------------------------------------------ errors
\* A Go error value: nil, or a *SyntaxError{msg, Offset}.
Nil == [msg |-> <<>>, Offset |-> 0]

SyntaxError(msg, offset) == [msg |-> msg, Offset |-> offset]

HexDigit(v) == IF v < 10 THEN Ch.d0 + v ELSE Ch.a + (v - 10)

\* strconv.Quote(string(c)) without its surrounding quotes, for c < 0x80.
QuoteBody(c) ==
    CASE c = 7  -> <<Ch.backslash, Ch.a>>
      [] c = 8  -> <<Ch.backslash, 98>>
      [] c = 12 -> <<Ch.backslash, 102>>
      [] c = Ch.nl  -> <<Ch.backslash, Ch.n>>
      [] c = Ch.cr  -> <<Ch.backslash, 114>>
      [] c = Ch.tab -> <<Ch.backslash, Ch.t>>
      [] c = 11 -> <<Ch.backslash, 118>>
      [] c = Ch.dquote -> <<Ch.backslash, Ch.dquote>>
      [] c = Ch.backslash -> <<Ch.backslash, Ch.backslash>>
      [] c < Ch.sp \/ c = 127 ->
            <<Ch.backslash, 120, HexDigit(c \div 16), HexDigit(c % 16)>>
      [] OTHER -> <<c>>

quoteChar(c) ==
    IF c = Ch.squote THEN <<Ch.squote, Ch.backslash, Ch.squote, Ch.squote>>
    ELSE IF c = Ch.dquote THEN <<Ch.squote, Ch.dquote, Ch.squote>>
    ELSE <<Ch.squote>> \o QuoteBody(c) \o <<Ch.squote>>

\* ------------------------------------------------------------------ scanner
\* The zero value of the scanner struct.  addr tells the instances that
\* scannerPool.New allocates apart (the *scanner that names them); it is 0
\* for a scanner that is no pool instance.  high is the largest length the
\* buffer behind the parseState slice has had since it was allocated (0 for
\* a nil slice): reslicing keeps the buffer, append grows it.
ZeroScanner ==
    [ step |-> "nil", endTop |-> FALSE, parseState |-> <<>>, err |-> Nil,
      bytes |-> 0, allowMultipleTopValues |-> FALSE, addr |-> 0, high |-> 0 ]

\* What a state function hands back: the scanner after the call and the
\* opcode; r = "panic" when the call aborted with a run-time panic.
Ret(s, r) == [s |-> s, r |-> r]

isSpace(c) == c <= Ch.sp /\ (c = Ch.sp \/ c = Ch.tab \/ c = Ch.cr \/ c = Ch.nl)

isAlpha(c) == (c >= Ch.a /\ c <= Ch.z) \/ (c >= Ch.A /\ c <= Ch.Z)

isDigit(c) == c >= Ch.d0 /\ c <= Ch.d9

isLiteral(c) == isAlpha(c) \/ isDigit(c)

stateError(s, c) == Ret(s, "scanError")

\* error recording the 0-based index of the byte instead of the byte count.
error_zeroBased(s, c, context) ==
    Ret([s EXCEPT !.step = "stateError",
                  !.err = SyntaxError(<<"invalid character", quoteChar(c), context>>,
                                      s.bytes - 1)],
        "scanError")

error(s, c, context) ==
    Ret([s EXCEPT !.step = "stateError",
                  !.err = SyntaxError(<<"invalid character", quoteChar(c), context>>,
                                      s.bytes)],
        "scanError")

\* reset that leaves endTop as the last scan set it.
reset_keepEndTop(s) ==
    [s EXCEPT !.step = "stateBeginTop", !.parseState = <<>>, !.err = Nil]

reset(s) ==
    [s EXCEPT !.step = "stateBeginTop", !.parseState = <<>>, !.err = Nil,
              !.endTop = FALSE]

\* append(s.parseState, p)
Appended(s, p) ==
    [s EXCEPT !.parseState = Append(s.parseState, p),
              !.high = IF Len(s.parseState) + 1 > @ THEN Len(s.parseState) + 1 ELSE @]

\* pushParseState without the depth check.
pushParseState_unchecked(s, c, newParseState, successState) ==
    Ret(Appended(s, newParseState), successState)

\* pushParseState comparing with < instead of <=.
pushParseState_strict(s, c, newParseState, successState) ==
    IF Len(s.parseState) + 1 < maxNestingDepth
    THEN Ret(Appended(s, newParseState), successState)
    ELSE error(Appended(s, newParseState), c, "exceeded max depth")

pushParseState(s, c, newParseState, successState) ==
    LET t == Appended(s, newParseState)
    IN  IF Len(t.parseState) <= maxNestingDepth
        THEN Ret(t, successState)
        ELSE error(t, c, "exceeded max depth")

\* popParseState going on in stateEndValue after the last entry too.
popParseState_noEndTop(s) ==
    LET n == Len(s.parseState) - 1
    IN  IF n < 0 THEN Ret(s, "panic")
        ELSE Ret([s EXCEPT !.parseState = SubSeq(s.parseState, 1, n),
                           !.step = "stateEndValue"], "ok")

\* s.parseState[0:n] with n = len - 1 panics on an empty stack.
popParseState(s) ==
    LET n == Len(s.parseState) - 1
    IN  IF n < 0 THEN Ret(s, "panic")
        ELSE IF n = 0
        THEN Ret([s EXCEPT !.parseState = SubSeq(s.parseState, 1, n),
                           !.step = "stateEndTop", !.endTop = TRUE], "ok")
        ELSE Ret([s EXCEPT !.parseState = SubSeq(s.parseState, 1, n),
                           !.step = "stateEndValue"], "ok")

SetStep(s, f) == [s EXCEPT !.step = f]

SetTop(s, p) == [s EXCEPT !.parseState[Len(s.parseState)] = p]

stateEndTop(s, c) ==
    IF ~isSpace(c) /\ s.allowMultipleTopValues
    THEN Ret(SetStep(s, "stateBeginTop"), "scanContinue")
    ELSE Ret(s, "scanEnd")

stateEndValue(s, c) ==
    LET n  == Len(s.parseState)
        ps == s.parseState[n]
        p  == popParseState(s)
    IN  IF n = 0
        THEN stateEndTop([s EXCEPT !.step = "stateEndTop", !.endTop = TRUE], c)
        ELSE IF isSpace(c) THEN Ret(SetStep(s, "stateEndValue"), "scanSkipSpace")
        ELSE CASE ps = "parseIdentifier" ->
                    IF c = Ch.colon
                    THEN Ret(SetStep(p.s, "stateAssignmentOperator1"), "scanEndType")
                    ELSE IF isLiteral(c)
                    THEN pushParseState(SetStep(p.s, "stateInName"), c,
                                        "parseType", "scanBeginType")
                    ELSE error(p.s, c, "after identifier or type")
               [] ps = "parseType" ->
                    IF c = Ch.colon
                    THEN Ret(SetStep(p.s, "stateAssignmentOperator1"), "scanEndType")
                    ELSE error(s, c, "after type")
               [] ps = "parseValueName" ->
                    IF c = Ch.colon
                    THEN Ret(SetStep(p.s, "stateBeginValue"), "scanContinue")
                    ELSE error(p.s, c, "after value name")
               [] ps = "parseObjectKey" ->
                    IF isLiteral(c)
                    THEN Ret(SetStep(SetTop(s, "parseObjectValue"), "stateBeginValue"),
                             "scanObjectKey")
                    ELSE error(s, c, "no idea what to do")
               [] ps = "parseObjectValue" ->
                    IF c = Ch.comma
                    THEN Ret(SetStep(SetTop(s, "parseObjectKey"), "stateBeginObjectKey"),
                             "scanObjectValue")
                    ELSE IF c = Ch.rbrace
                    THEN Ret(p.s, "scanEndObject")
                    ELSE error(s, c, "after object key:value pair")
               [] OTHER -> error(s, c, "no idea what to do")

stateBeginValue(s, c) ==
    IF isSpace(c) THEN Ret(s, "scanSkipSpace")
    ELSE CASE c = Ch.lbrace ->
                pushParseState(SetStep(s, "stateBeginObjectKeyOrEmpty"), c,
                               "parseObjectKey", "scanBeginObject")
           [] c = Ch.rbrace ->
                LET p == popParseState(s)
                IN  IF p.r = "panic" THEN p ELSE Ret(p.s, "scanEndObject")
           [] c = Ch.colon -> Ret(SetStep(s, "stateBeginValue"), "scanObjectValue")
           [] c = Ch.dquote -> Ret(SetStep(s, "stateInOctetString"), "scanBeginLiteral")
           [] c = Ch.squote ->
                Ret(SetStep(s, "stateInHexadecimalString"), "scanBeginLiteral")
           [] c = Ch.N -> Ret(SetStep(s, "stateN"), "scanBeginLiteral")
           [] OTHER ->
                IF Ch.d1 <= c /\ c <= Ch.d9
                THEN Ret(SetStep(s, "state1"), "scanBeginLiteral")
                ELSE error(s, c, "looking for beginning of value")

stateAssignmentOperator1(s, c) ==
    IF c = Ch.colon
    THEN Ret(SetStep(s, "stateAssignmentOperator2"), "scanContinue")
    ELSE error(s, c, "in assignment operator (expected ':')")

\* stateAssignmentOperator2 skipping whitespace before the `=`.
stateAssignmentOperator2_spaced(s, c) ==
    IF c = Ch.eq
    THEN Ret(SetStep(s, "stateBeginValueName"), "scanContinue")
    ELSE IF isSpace(c) THEN Ret(s, "scanSkipSpace")
    ELSE error(s, c, "in assignment operator (expected '=')")

stateAssignmentOperator2(s, c) ==
    IF c = Ch.eq
    THEN Ret(SetStep(s, "stateBeginValueName"), "scanContinue")
    ELSE error(s, c, "in assignment operator (expected '=')")

stateBeginName(s, c) ==
    IF isAlpha(c)
    THEN Ret(SetStep(s, "stateInName"), "scanBeginLiteral")
    ELSE error(s, c, "looking for beginning of identifier or type")

stateInName(s, c) ==
    IF isSpace(c) THEN Ret(SetStep(s, "stateEndValue"), "scanContinue")
    ELSE IF isLiteral(c) \/ c = Ch.underscore THEN Ret(s, "scanContinue")
    ELSE error(s, c, "in identifier or type")

stateBeginValueName(s, c) ==
    IF isSpace(c) THEN Ret(s, "scanSkipSpace")
    ELSE IF isAlpha(c)
    THEN pushParseState(SetStep(s, "stateInValueName"), c,
                        "parseValueName", "scanBeginLiteral")
    ELSE error(s, c, "looking for beginning of value name")

stateInValueName(s, c) ==
    IF isSpace(c) THEN Ret(SetStep(s, "stateEndValue"), "scanContinue")
    ELSE IF isLiteral(c) \/ c = Ch.underscore \/ c = Ch.minus
    THEN Ret(s, "scanContinue")
    ELSE error(s, c, "in value name")

stateBeginObjectKey(s, c) ==
    IF isSpace(c) THEN Ret(s, "scanSkipSpace")
    ELSE IF isAlpha(c)
    THEN Ret(SetStep(s, "stateInObjectKey"), "scanBeginLiteral")
    ELSE error(s, c, "looking for beginning of object key string")

\* stateBeginObjectKeyOrEmpty without the anonymous-record case.
stateBeginObjectKeyOrEmpty_named(s, c) ==
    IF isSpace(c) THEN Ret(s, "scanSkipSpace")
    ELSE IF c = Ch.rbrace
    THEN stateEndValue(SetTop(s, "parseObjectValue"), c)
    ELSE stateBeginObjectKey(s, c)

stateBeginObjectKeyOrEmpty(s, c) ==
    IF isSpace(c) THEN Ret(s, "scanSkipSpace")
    ELSE IF c = Ch.rbrace
    THEN stateEndValue(SetTop(s, "parseObjectValue"), c)
    ELSE IF c = Ch.lbrace
    THEN pushParseState(SetStep(SetTop(s, "parseObjectValue"),
                                "stateBeginObjectKeyOrEmpty"),
                        c, "parseObjectKey", "scanBeginObject")
    ELSE stateBeginObjectKey(s, c)

\* stateInObjectKey taking letters and digits only.
stateInObjectKey_alnum(s, c) ==
    IF isSpace(c)
    THEN Ret(SetStep(SetTop(s, "parseObjectValue"), "stateBeginValue"), "scanContinue")
    ELSE IF isLiteral(c) THEN Ret(s, "scanContinue")
    ELSE error(s, c, "in object key")

stateInObjectKey(s, c) ==
    IF isSpace(c)
    THEN Ret(SetStep(SetTop(s, "parseObjectValue"), "stateBeginValue"), "scanContinue")
    ELSE Ret(s, "scanContinue")

stateInOctetString(s, c) ==
    IF c = Ch.dquote THEN Ret(SetStep(s, "stateEndValue"), "scanContinue")
    ELSE IF c < 32 THEN error(s, c, "in string literal")
    ELSE Ret(s, "scanContinue")

stateInHexadecimalString(s, c) ==
    IF c = Ch.squote
    THEN Ret(SetStep(s, "stateSuffixAfterHexadecimalString"), "scanContinue")
    ELSE IF c < 32 THEN error(s, c, "in hexadecimal string literal")
    ELSE Ret(s, "scanContinue")

\* stateSuffixAfterHexadecimalString expecting a lower-case h.
stateSuffixAfterHexadecimalString_lower(s, c) ==
    IF c = 104 THEN Ret(SetStep(s, "stateEndValue"), "scanContinue")
    ELSE error(s, c, "in hexadecimal string (expected 'H')")

stateSuffixAfterHexadecimalString(s, c) ==
    IF c = Ch.H THEN Ret(SetStep(s, "stateEndValue"), "scanContinue")
    ELSE error(s, c, "in hexadecimal string (expected 'H')")

stateN(s, c) ==
    IF c = Ch.U THEN Ret(SetStep(s, "stateNu"), "scanContinue")
    ELSE error(s, c, "in literal NULL (expecting 'U')")

stateNu(s, c) ==
    IF c = Ch.L THEN Ret(SetStep(s, "stateNul"), "scanContinue")
    ELSE error(s, c, "in literal NULL (expecting 'L')")

stateNul(s, c) ==
    IF c = Ch.L THEN Ret(SetStep(s, "stateEndValue"), "scanContinue")
    ELSE error(s, c, "in literal NULL (expecting 'L')")

state0(s, c) ==
    IF c = Ch.dot THEN Ret(SetStep(s, "stateDot"), "scanContinue")
    ELSE IF c = Ch.e \/ c = Ch.E THEN Ret(SetStep(s, "stateE"), "scanContinue")
    ELSE stateEndValue(s, c)

state1(s, c) ==
    IF Ch.d0 <= c /\ c <= Ch.d9 THEN Ret(SetStep(s, "state1"), "scanContinue")
    ELSE state0(s, c)

\* stateDot letting the number end after the decimal point.
stateDot_lenient(s, c) ==
    IF Ch.d0 <= c /\ c <= Ch.d9 THEN Ret(SetStep(s, "stateDot0"), "scanContinue")
    ELSE stateEndValue(s, c)

stateDot(s, c) ==
    IF Ch.d0 <= c /\ c <= Ch.d9 THEN Ret(SetStep(s, "stateDot0"), "scanContinue")
    ELSE error(s, c, "after decimal point in numeric literal")

stateDot0(s, c) ==
    IF Ch.d0 <= c /\ c <= Ch.d9 THEN Ret(s, "scanContinue")
    ELSE IF c = Ch.e \/ c = Ch.E THEN Ret(SetStep(s, "stateE"), "scanContinue")
    ELSE stateEndValue(s, c)

stateESign(s, c) ==
    IF Ch.d0 <= c /\ c <= Ch.d9 THEN Ret(SetStep(s, "stateE0"), "scanContinue")
    ELSE error(s, c, "in exponent of numeric literal")

stateE(s, c) ==
    IF c = Ch.plus \/ c = Ch.minus THEN Ret(SetStep(s, "stateESign"), "scanContinue")
    ELSE stateESign(s, c)

\* stateE0 taking only whitespace as the end of the number.
stateE0_needsSpace(s, c) ==
    IF Ch.d0 <= c /\ c <= Ch.d9 THEN Ret(s, "scanContinue")
    ELSE IF isSpace(c) THEN stateEndValue(s, c)
    ELSE error(s, c, "in exponent of numeric literal")

stateE0(s, c) ==
    IF Ch.d0 <= c /\ c <= Ch.d9 THEN Ret(s, "scanContinue")
    ELSE stateEndValue(s, c)

stateBeginTop(s, c) ==
    IF isSpace(c) THEN Ret(s, "scanSkipSpace")
    ELSE IF isAlpha(c)
    THEN pushParseState(SetStep(s, "stateBeginName"), c,
                        "parseIdentifier", "scanBeginIdentifierOrType")
    ELSE error(s, c, "looking for beginning of top value")

\* s.step(s, c): the call through the scanner's step function.
step(s, c) ==
    CASE s.step = "stateBeginTop" -> stateBeginTop(s, c)
      [] s.step = "stateBeginName" -> stateBeginName(s, c)
      [] s.step = "stateInName" -> stateInName(s, c)
      [] s.step = "stateEndValue" -> stateEndValue(s, c)
      [] s.step = "stateAssignmentOperator1" -> stateAssignmentOperator1(s, c)
      [] s.step = "stateAssignmentOperator2" -> stateAssignmentOperator2(s, c)
      [] s.step = "stateBeginValueName" -> stateBeginValueName(s, c)
      [] s.step = "stateInValueName" -> stateInValueName(s, c)
      [] s.step = "stateBeginValue" -> stateBeginValue(s, c)
      [] s.step = "stateBeginObjectKeyOrEmpty" -> stateBeginObjectKeyOrEmpty(s, c)
      [] s.step = "stateBeginObjectKey" -> stateBeginObjectKey(s, c)
      [] s.step = "stateInObjectKey" -> stateInObjectKey(s, c)
      [] s.step = "stateInOctetString" -> stateInOctetString(s, c)
      [] s.step = "stateInHexadecimalString" -> stateInHexadecimalString(s, c)
      [] s.step = "stateSuffixAfterHexadecimalString" ->
            stateSuffixAfterHexadecimalString(s, c)
      [] s.step = "stateN" -> stateN(s, c)
      [] s.step = "stateNu" -> stateNu(s, c)
      [] s.step = "stateNul" -> stateNul(s, c)
      [] s.step = "state1" -> state1(s, c)
      [] s.step = "state0" -> state0(s, c)
      [] s.step = "stateDot" -> stateDot(s, c)
      [] s.step = "stateDot0" -> stateDot0(s, c)
      [] s.step = "stateE" -> stateE(s, c)
      [] s.step = "stateESign" -> stateESign(s, c)
      [] s.step = "stateE0" -> stateE0(s, c)
      [] s.step = "stateEndTop" -> stateEndTop(s, c)
      [] s.step = "stateError" -> stateError(s, c)

\* scanner.eof after its s.step(s, ' '), which left the scanner as t.
eofFlushed(t) ==
    IF t.endTop THEN Ret(t, "scanEnd")
    ELSE IF t.err = Nil
    THEN Ret([t EXCEPT !.err = SyntaxError(<<"unexpected end of JSON input">>, t.bytes)],
             "scanError")
    ELSE Ret(t, "scanError")

\* scanner.eof: the opcode and the scanner after the call.
eof(s) ==
    IF s.err # Nil THEN Ret(s, "scanError")
    ELSE IF s.endTop THEN Ret(s, "scanEnd")
    ELSE eofFlushed(step(s, Ch.sp).s)

\* ------------------------------------------------------------------ inputs
\* The bytes the free input is drawn from: at least one byte of every class
\* the state functions tell apart.
Alphabet ==
    { Ch.sp, Ch.nl, Ch.lbrace, Ch.rbrace, Ch.colon, Ch.eq, Ch.comma, Ch.dquote,
      Ch.squote, Ch.H, Ch.N, Ch.U, Ch.L, Ch.a, Ch.e, Ch.d0, Ch.d1, Ch.dot,
      Ch.plus, Ch.minus, Ch.underscore, Ch.bang, Ch.ctl }

WS == {Ch.sp, Ch.nl}

\* The inputs of concurrent Valid calls: `aa :` (returns nil), `!` (fails
\* in step), `a` (fails at eof), `aa ::=a :}` (aborts in step).
ConcInputs == <<
    << 97, 97, 32, 58 >>, << 33 >>, << 97 >>,
    << 97, 97, 32, 58, 58, 61, 97, 32, 58, 125 >> >>

\* The bytes a direct caller of step passes: one byte of each class the
\* header, a record and a number are made of, and one no state takes.
DirectAlphabet ==
    { Ch.sp, Ch.a, Ch.colon, Ch.eq, Ch.lbrace, Ch.rbrace, Ch.d1, Ch.bang }

\* "ident Type ::= name : " and "ident Type ::= "
HdrNamed == <<
    105, 100, 101, 110, 116, 32, 84, 121, 112, 101, 32, 58, 58, 61, 32, 110, 97,
    109, 101, 32, 58, 32 >>

HdrBare == <<
    105, 100, 101, 110, 116, 32, 84, 121, 112, 101, 32, 58, 58, 61, 32 >>

\* "ab X ::= h : "
HdrShort == <<
    97, 98, 32, 88, 32, 58, 58, 61, 32, 104, 32, 58, 32 >>

\* value1 ProfileElement ::= header : { major-version 2, minor-version 1 }
SpecScenario == <<
    118, 97, 108, 117, 101, 49, 32, 80, 114, 111, 102, 105, 108, 101, 69, 108, 101,
    109, 101, 110, 116, 32, 58, 58, 61, 32, 104, 101, 97, 100, 101, 114, 32, 58, 32,
    123, 32, 109, 97, 106, 111, 114, 45, 118, 101, 114, 115, 105, 111, 110, 32, 50,
    44, 32, 109, 105, 110, 111, 114, 45, 118, 101, 114, 115, 105, 111, 110, 32, 49,
    32, 125 >>

\* value1 X ::= NUL
NulInput == <<
    118, 97, 108, 117, 101, 49, 32, 88, 32, 58, 58, 61, 32, 78, 85, 76 >>

\* The asn1Blob of TestUnmarshalAsn1 (header profile element).
TestBlob000 == <<
    118, 97, 108, 117, 101, 49, 32, 80, 114, 111, 102, 105, 108, 101, 69, 108, 101,
    109, 101, 110, 116, 32, 58, 58, 61, 32, 104, 101, 97, 100, 101, 114, 32, 58, 32,
    123, 10, 32, 32, 109, 97, 106, 111, 114, 45, 118, 101, 114, 115, 105, 111, 110,
    32, 50, 44, 10, 32, 32, 109, 105, 110, 111, 114, 45, 118, 101, 114, 115, 105,
    111, 110, 32, 49, 44, 10, 32, 32, 112, 114, 111, 102, 105, 108, 101, 84, 121,
    112, 101, 32, 34, 71, 83, 77, 65, 32, 71, 101, 110, 101, 114, 105, 99, 32, 101,
    85, 73, 67, 67, 32, 84, 101, 115, 116, 32, 80, 114, 111, 102, 105, 108, 101, 34,
    44, 10, 32, 32, 105, 99, 99, 105, 100, 32, 39, 56, 57, 48, 48, 48, 49, 50, 51,
    52, 53, 54, 55, 56, 57, 48, 49, 50, 51, 52, 49, 39, 72, 44, 10, 32, 32, 101, 85,
    73, 67, 67, 45, 77, 97, 110, 100, 97, 116, 111, 114, 121, 45, 115, 101, 114,
    118, 105, 99, 101, 115, 32, 123, 10, 32, 32, 32, 32, 117, 115, 105, 109, 32, 78,
    85, 76, 76, 44, 10, 32, 32, 32, 32, 105, 115, 105, 109, 32, 78, 85, 76, 76, 44,
    10, 32, 32, 32, 32, 99, 115, 105, 109, 32, 78, 85, 76, 76, 44, 10, 32, 32, 32,
    32, 117, 115, 105, 109, 45, 116, 101, 115, 116, 45, 97, 108, 103, 111, 114, 105,
    116, 104, 109, 32, 78, 85, 76, 76, 44, 10, 32, 32, 32, 32, 98, 101, 114, 45,
    116, 108, 118, 32, 78, 85, 76, 76, 10, 32, 32, 125, 44, 10, 32, 32, 101, 85, 73,
    67, 67, 45, 77, 97, 110, 100, 97, 116, 111, 114, 121, 45, 71, 70, 83, 84, 69,
    76, 105, 115, 116, 32, 123, 10, 32, 32, 32, 32, 123, 32, 50, 32, 50, 51, 32, 49,
    52, 51, 32, 49, 32, 50, 32, 49, 32, 125, 44, 10, 32, 32, 32, 32, 123, 32, 50,
    32, 50, 51, 32, 49, 52, 51, 32, 49, 32, 50, 32, 51, 32, 125, 44, 10, 32, 32, 32,
    32, 123, 32, 50, 32, 50, 51, 32, 49, 52, 51, 32, 49, 32, 50, 32, 52, 32, 125,
    44, 10, 32, 32, 32, 32, 123, 32, 50, 32, 50, 51, 32, 49, 52, 51, 32, 49, 32, 50,
    32, 53, 32, 125, 44, 10, 32, 32, 32, 32, 123, 32, 50, 32, 50, 51, 32, 49, 52,
    51, 32, 49, 32, 50, 32, 55, 32, 125, 44, 10, 32, 32, 32, 32, 123, 32, 50, 32,
    50, 51, 32, 49, 52, 51, 32, 49, 32, 50, 32, 56, 32, 125, 44, 10, 32, 32, 32, 32,
    123, 32, 50, 32, 50, 51, 32, 49, 52, 51, 32, 49, 32, 50, 32, 57, 32, 125, 44,
    10, 32, 32, 32, 32, 123, 32, 50, 32, 50, 51, 32, 49, 52, 51, 32, 49, 32, 50, 32,
    49, 48, 32, 125, 44, 10, 32, 32, 32, 32, 123, 32, 50, 32, 50, 51, 32, 49, 52,
    51, 32, 49, 32, 50, 32, 49, 49, 32, 125, 10, 32, 32, 125, 10, 125, 10, 10 >>

Rep(b, k) == [x \in 1..k |-> b]

\* Records nested exactly maxNestingDepth deep, all closed.
DeepOK == HdrShort \o Rep(Ch.lbrace, maxNestingDepth) \o Rep(Ch.rbrace, maxNestingDepth)

\* One record more than maxNestingDepth opened.
TooDeep ==
    HdrShort \o Rep(Ch.lbrace, maxNestingDepth + 1) \o Rep(Ch.rbrace, maxNestingDepth + 1)

\* ab X ::= h : { { a 1 } }
AnonRecord == HdrShort \o << 123, 32, 123, 32, 97, 32, 49, 32, 125, 32, 125 >>

\* ab X ::= h : { a 5 , b 12345e+6 , c 5, d 12345e+6, e { f 5} , g { h 12345e+6} }
NumbersInRecord == HdrShort \o <<
    123, 32, 97, 32, 53, 32, 44, 32, 98, 32, 49, 50, 51, 52, 53, 101, 43, 54, 32,
    44, 32, 99, 32, 53, 44, 32, 100, 32, 49, 50, 51, 52, 53, 101, 43, 54, 44, 32,
    101, 32, 123, 32, 102, 32, 53, 125, 32, 44, 32, 103, 32, 123, 32, 104, 32, 49,
    50, 51, 52, 53, 101, 43, 54, 125, 32, 125 >>

\* ab X ::= h : 123
NumberAtEnd == HdrShort \o << 49, 50, 51 >>

Literals == <<
    SpecScenario, NulInput, TestBlob000, DeepOK, TooDeep, AnonRecord,
    NumbersInRecord, NumberAtEnd >>

\* ------------------------------------------------------------------ state
VARIABLES
    mode,      \* "api": Valid(data) and Unmarshal(data, v) on the same data;
               \* "reuse": checkValid(A, s) then checkValid(B, s), with
               \*          checkValid(B, fresh) beside the second scan;
               \* "concat": checkValid(V1 + whitespace + V2, s) and, beside
               \*          its scan of V2, checkValid(V2, another scanner);
               \* "conc": two goroutines, each calling Valid on inputs of
               \*          its own, one call after another, interleaved;
               \* "direct": a caller of the scanner's own methods reset,
               \*          step and eof, in any order after a first reset
    feed,      \* where the bytes of data come from, and how far that has got
    calls,     \* call id -> [pc, scan, ret, line]
    run,       \* 1, or 2 during the second scan of mode "reuse"; in mode
               \* "conc" the number of Valid calls made so far, less one
    consumedA, \* bytes the first scan of mode "reuse" consumed
    n,         \* number of bytes of data delivered so far (the range index)
    c,         \* the byte delivered last (0 before the first)
    ended,     \* the range loop over data has run out of bytes
    pool,      \* scannerPool: the scanners put back
    op,        \* mode "direct": the scanner method called last and its opcode
    data       \* mode "conc": Valid caller -> which of ConcInputs it passes

vars == <<mode, feed, calls, run, consumedA, n, c, ended, pool, op, data>>

CallIds ==
    {"Valid", "Valid2", "Unmarshal", "Reused", "Fresh", "Direct", "Whole", "Own"}

\* The callers of Valid.
ValidIds == {"Valid", "Valid2"}

\* m: "none", "reset", "step" or "eof"; r: the opcode returned.
Op(m, r) == [m |-> m, r |-> r]

\* pc: "idle" (not called), "start", "loop" (inside checkValid's range
\* loop), "done" (returned), "panic"; "direct" while the caller of mode
\* "direct" holds the scanner.  ret is checkValid's result and line
\* the line of scanner.go that returned it.
Call(pc, scan, ret, line) == [pc |-> pc, scan |-> scan, ret |-> ret, line |-> line]

\* The input sources.  kind "free": any byte of Alphabet next; "lit": the
\* k-th of Literals; "form": the value-notation grammar
\*    ident Type ::= [name :] value   (whitespace-separated, one or more)
\* with the header named or bare, and the top-level values records only or
\* of any form.  ph/d/j/v are the grammar's position: phase, open records,
\* header bytes written, top-level values begun.
Source(kind, k, named, onlyRec) ==
    [kind |-> kind, k |-> k, named |-> named, onlyRec |-> onlyRec,
     ph |-> "hdr", d |-> 0, j |-> 0, v |-> 1]

FreeFeed == Source("free", 0, FALSE, FALSE)

Hdr(f) == IF f.named THEN HdrNamed ELSE HdrBare

To(f, ph) == [f EXCEPT !.ph = ph]

ToD(f, ph, d) == [f EXCEPT !.ph = ph, !.d = d]

GenAlpha == {Ch.a, Ch.e, Ch.N}

GenDigit == {Ch.d0, Ch.d1, Ch.d9}

On(bs, g) == {<<b, g>> : b \in bs}

\* The bytes that may begin a value, records no deeper than the depth limit.
ValueStart(f) ==
    (IF f.d < maxNestingDepth
     THEN {<<Ch.lbrace, ToD(f, "recOpen", f.d + 1)>>} ELSE {})
    \cup (IF f.d = 0 /\ f.onlyRec THEN {}
          ELSE {<<Ch.dquote, To(f, "ostr")>>, <<Ch.squote, To(f, "hstr")>>,
                <<Ch.N, To(f, "N1")>>}
               \cup On({Ch.d1, Ch.d2, Ch.d9}, To(f, "int")))

\* The bytes that may follow a complete value.
AfterMoves(f) ==
    IF f.d = 0 THEN On(WS, To(f, "topws"))
    ELSE On(WS, To(f, "after"))
         \cup {<<Ch.comma, To(f, "key0")>>, <<Ch.rbrace, ToD(f, "after", f.d - 1)>>}

GenMoves(f) ==
    CASE f.ph = "hdr" ->
            {<<Hdr(f)[f.j + 1],
               IF f.j + 1 = Len(Hdr(f)) THEN [f EXCEPT !.ph = "value", !.j = 0]
               ELSE [f EXCEPT !.j = f.j + 1]>>}
      [] f.ph = "value" -> On(WS, f) \cup ValueStart(f)
      [] f.ph = "postKey" ->
            On(WS, f) \cup ValueStart(f) \cup {<<Ch.colon, To(f, "value")>>}
      [] f.ph = "ostr" ->
            On({b \in Alphabet : b >= 32 /\ b # Ch.dquote}, f)
            \cup {<<Ch.dquote, To(f, "after")>>}
      [] f.ph = "hstr" ->
            On({Ch.d0, Ch.d1, Ch.A}, f) \cup {<<Ch.squote, To(f, "hq")>>}
      [] f.ph = "hq" -> {<<Ch.H, To(f, "after")>>}
      [] f.ph = "N1" -> {<<Ch.U, To(f, "N2")>>}
      [] f.ph = "N2" -> {<<Ch.L, To(f, "N3")>>}
      [] f.ph = "N3" -> {<<Ch.L, To(f, "after")>>}
      [] f.ph = "int" ->
            On(GenDigit, f) \cup {<<Ch.dot, To(f, "frac0")>>}
            \cup On({Ch.e, Ch.E}, To(f, "exp0")) \cup AfterMoves(f)
      [] f.ph = "frac0" -> On(GenDigit, To(f, "frac"))
      [] f.ph = "frac" ->
            On(GenDigit, f) \cup On({Ch.e, Ch.E}, To(f, "exp0")) \cup AfterMoves(f)
      [] f.ph = "exp0" ->
            On({Ch.plus, Ch.minus}, To(f, "exp1")) \cup On(GenDigit, To(f, "exp"))
      [] f.ph = "exp1" -> On(GenDigit, To(f, "exp"))
      [] f.ph = "exp" -> On(GenDigit, f) \cup AfterMoves(f)
      [] f.ph = "after" -> AfterMoves(f)
      [] f.ph = "topws" ->
            On(WS, f) \cup {<<Hdr(f)[1], [f EXCEPT !.ph = "hdr", !.j = 1, !.v = @ + 1]>>}
      [] f.ph = "recOpen" ->
            On(WS, f) \cup {<<Ch.rbrace, ToD(f, "after", f.d - 1)>>}
            \cup On(GenAlpha, To(f, "key"))
      [] f.ph = "key0" -> On(WS, f) \cup On(GenAlpha, To(f, "key"))
      [] f.ph = "key" ->
            On(GenAlpha \cup {Ch.d1, Ch.minus}, f) \cup On(WS, To(f, "postKey"))

\* The input written so far is a whole number of top-level values.
Complete(f) == f.d = 0 /\ f.ph \in {"after", "topws", "int", "frac", "exp"}

\* The next byte of data and the source after it, after k bytes.
Moves(f, k) ==
    CASE f.kind = "free" -> On(Alphabet, f)
      [] f.kind = "lit" ->
            IF k < Len(Literals[f.k]) THEN {<<Literals[f.k][k + 1], f>>} ELSE {}
      [] f.kind = "form" -> GenMoves(f)

\* data may end here.
MayEnd(f, k) == f.kind = "lit" => k = Len(Literals[f.k])

Limit ==
    CASE mode = "concat" -> IF run = 1 THEN MaxLenV1 ELSE MaxLenV2
      [] feed.kind = "form" -> GenLen
      [] feed.kind = "lit" -> Len(Literals[feed.k])
      [] mode = "reuse" /\ run = 1 -> MaxLenA
      [] OTHER -> MaxLen

\* ------------------------------------------------------------------ calls
\* scannerPool.Get() yielded g (a pooled scanner, or New's &scanner{}).
newScanner(g) ==
    reset([g EXCEPT !.bytes = 0, !.allowMultipleTopValues = TRUE])

freeScanner(s) ==
    IF Len(s.parseState) > poolMaxStack
    THEN [s EXCEPT !.parseState = <<>>, !.high = 0] ELSE s

\* checkValid's range loop after scan.step(scan, c) gave o.
Stepped(o) ==
    IF o.r = "panic" THEN Call("panic", o.s, Nil, 36)
    ELSE IF o.r = "scanError" THEN Call("done", o.s, o.s.err, 37)
    ELSE Call("loop", o.s, Nil, 0)

\* One iteration of checkValid's range loop, for byte b.
LoopBody(call, b) == Stepped(step([call.scan EXCEPT !.bytes = @ + 1], b))

\* checkValid after scan.eof() gave o.
Eofed(o) ==
    IF o.r = "scanError" THEN Call("done", o.s, o.s.err, 41)
    ELSE Call("done", o.s, Nil, 43)

\* checkValid after its range loop.
AfterLoop(call) == Eofed(eof(call.scan))

\* Valid's deferred freeScanner, when this step left checkValid.
Deferred(id, old, new) ==
    IF id \in ValidIds /\ old.pc = "loop" /\ new.pc # "loop"
    THEN [new EXCEPT !.scan = freeScanner(new.scan)] ELSE new

\* The deferred freeScanner skipped when checkValid returned an error.
PoolAfter_onlyOnNil(old, new) ==
    IF old.pc = "loop" /\ new.pc # "loop" /\ new.ret = Nil
    THEN Append(pool, new.scan) ELSE pool

\* scannerPool after the deferred scannerPool.Put(scan), when this step
\* left checkValid.
PoolAfter(old, new) ==
    IF old.pc = "loop" /\ new.pc # "loop" THEN Append(pool, new.scan) ELSE pool

\* The address of the next &scanner{} that scannerPool.New allocates.
NewAddr ==
    LET used == {calls[id].scan.addr : id \in CallIds}
                \cup {pool[k].addr : k \in 1..Len(pool)}
    IN  1 + CHOOSE m \in used : \A x \in used : x <= m

\* scannerPool.Get(): the k-th pooled scanner, or New's when k = 0.
PoolGet(k) == IF k = 0 THEN [ZeroScanner EXCEPT !.addr = NewAddr] ELSE pool[k]

\* scannerPool without the k-th scanner (k = 0: as it is).
PoolWithout(k) ==
    [x \in 1..(Len(pool) - (IF k = 0 THEN 0 ELSE 1)) |->
        IF x < k \/ k = 0 THEN pool[x] ELSE pool[x + 1]]

\* Valid's result.
ValidResult == calls["Valid"].ret = Nil

\* What every mode starts with.
Idle ==
    /\ run = 1 /\ consumedA = 0 /\ n = 0 /\ c = 0 /\ ended = FALSE /\ pool = <<>>
    /\ op = Op("none", "none")
    /\ feed \in {FreeFeed}
                \cup {Source("lit", k, FALSE, FALSE) : k \in 1..Len(Literals)}
                \cup {Source("form", 0, nm, r) : nm \in BOOLEAN, r \in BOOLEAN}

\* The calls id \in ids are about to be made on scanner s.
Starting(ids, s) ==
    calls = [id \in CallIds |->
               IF id \in ids THEN Call("start", s, Nil, 0) ELSE Call("idle", s, Nil, 0)]

Init ==
    /\ Idle
    /\ data = [id \in ValidIds |-> 0]
    /\ \/ /\ mode = "api"
          /\ Starting({"Valid", "Unmarshal"}, ZeroScanner)
       \/ /\ mode = "reuse"
          /\ feed = FreeFeed
          /\ \E b \in BOOLEAN :
                Starting({"Reused"}, [ZeroScanner EXCEPT !.allowMultipleTopValues = b])

InitDirect ==
    /\ Idle
    /\ data = [id \in ValidIds |-> 0]
    /\ mode = "direct"
    /\ feed = FreeFeed
    /\ \E b \in BOOLEAN :
          Starting({"Direct"}, [ZeroScanner EXCEPT !.allowMultipleTopValues = b])

InitConcat ==
    /\ Idle
    /\ data = [id \in ValidIds |-> 0]
    /\ mode = "concat"
    /\ feed = Source("form", 0, TRUE, FALSE)
    /\ Starting({"Whole"}, [ZeroScanner EXCEPT !.allowMultipleTopValues = TRUE])

InitConc ==
    /\ Idle
    /\ data \in [ValidIds -> 1..Len(ConcInputs)]
    /\ mode = "conc"
    /\ feed = FreeFeed
    /\ Starting(ValidIds, ZeroScanner)

\* Valid: newScanner() (Get hands out a pooled scanner, or New's) and
\* checkValid's scan.reset().
ValidBegin(id) ==
    /\ id \in ValidIds
    /\ calls[id].pc = "start"
    /\ \E k \in 0..Len(pool) :
          /\ calls' = [calls EXCEPT ![id] =
                          Call("loop", reset(newScanner(PoolGet(k))), Nil, 0)]
          /\ pool' = PoolWithout(k)
    /\ UNCHANGED <<data, op, mode, feed, run, consumedA, n, c, ended>>

\* Unmarshal: var ds decodeState, and checkValid's scan.reset().
UnmarshalBegin ==
    /\ calls["Unmarshal"].pc = "start"
    /\ calls' = [calls EXCEPT !["Unmarshal"] = Call("loop", reset(ZeroScanner), Nil, 0)]
    /\ UNCHANGED <<data, op, mode, feed, run, consumedA, n, c, ended, pool>>

\* checkValid(data, scan) called directly: scan.reset().
CheckValidBegin(id) ==
    /\ id \in {"Reused", "Fresh", "Whole", "Own"}
    /\ calls[id].pc = "start"
    /\ calls' = [calls EXCEPT ![id] = Call("loop", reset(calls[id].scan), Nil, 0)]
    /\ UNCHANGED <<data, op, mode, feed, run, consumedA, n, c, ended, pool>>

\* The next byte of data goes through the range loop of every call that is
\* still scanning it.
Feed ==
    /\ mode # "conc"
    /\ ~ended
    /\ \A id \in CallIds : calls[id].pc # "start"
    /\ \E id \in CallIds : calls[id].pc = "loop"
    /\ n < Limit
    /\ \E mv \in Moves(feed, n) :
          /\ c' = mv[1]
          /\ feed' = mv[2]
          /\ calls' = [id \in CallIds |->
                        IF calls[id].pc = "loop"
                        THEN Deferred(id, calls[id], LoopBody(calls[id], mv[1]))
                        ELSE calls[id]]
    /\ pool' = PoolAfter(calls["Valid"], calls'["Valid"])
    /\ n' = n + 1
    /\ UNCHANGED <<data, op, mode, run, consumedA, ended>>

\* data has no more bytes: every call still scanning leaves the loop and
\* calls scan.eof().
EndOfData ==
    /\ mode # "conc"
    /\ ~ended
    /\ \A id \in CallIds : calls[id].pc # "start"
    /\ \E id \in CallIds : calls[id].pc = "loop"
    /\ MayEnd(feed, n)
    /\ calls' = [id \in CallIds |->
                   IF calls[id].pc = "loop"
                   THEN Deferred(id, calls[id], AfterLoop(calls[id]))
                   ELSE calls[id]]
    /\ pool' = PoolAfter(calls["Valid"], calls'["Valid"])
    /\ ended' = TRUE
    /\ UNCHANGED <<data, op, mode, feed, run, consumedA, n, c>>

\* Mode "reuse": the first scan has returned; the same scanner and a fresh
\* one now scan a second input.
SecondScan ==
    /\ mode = "reuse" /\ run = 1
    /\ calls["Reused"].pc = "done"
    /\ run' = 2 /\ consumedA' = n /\ n' = 0 /\ c' = 0 /\ ended' = FALSE
    /\ calls' = [id \in CallIds |->
                   IF id \in {"Reused", "Fresh"}
                   THEN Call("start", calls[id].scan, Nil, 0) ELSE calls[id]]
    /\ UNCHANGED <<data, op, mode, feed, pool>>

\* The caller of mode "direct" after a scanner method returned o.
Called(m, o) ==
    /\ calls' = [calls EXCEPT !["Direct"] =
                    Call(IF o.r = "panic" THEN "panic" ELSE "direct", o.s, Nil, 0)]
    /\ op' = Op(m, o.r)

\* Mode "direct": scan.reset().
DirectReset ==
    /\ mode = "direct"
    /\ calls["Direct"].pc \in {"start", "direct"}
    /\ op.m # "reset"
    /\ n < MaxOps
    /\ Called("reset", Ret(reset(calls["Direct"].scan), "none"))
    /\ n' = n + 1
    /\ UNCHANGED <<data, mode, feed, run, consumedA, c, ended, pool>>

\* Mode "direct": scan.bytes++ and scan.step(scan, b), as the callers of
\* step do.
DirectStep ==
    /\ mode = "direct"
    /\ calls["Direct"].pc = "direct"
    /\ n < MaxOps
    /\ \E b \in DirectAlphabet :
          /\ Called("step", step([calls["Direct"].scan EXCEPT !.bytes = @ + 1], b))
          /\ c' = b
    /\ n' = n + 1
    /\ UNCHANGED <<data, mode, feed, run, consumedA, ended, pool>>

\* Mode "direct": scan.eof().
DirectEof ==
    /\ mode = "direct"
    /\ calls["Direct"].pc = "direct"
    /\ n < MaxOps
    /\ Called("eof", eof(calls["Direct"].scan))
    /\ n' = n + 1
    /\ UNCHANGED <<data, mode, feed, run, consumedA, c, ended, pool>>

\* Mode "conc": one iteration of the range loop of one Valid call.
ConcFeed(id) ==
    /\ mode = "conc" /\ id \in ValidIds
    /\ calls[id].pc = "loop"
    /\ calls[id].scan.bytes < Len(ConcInputs[data[id]])
    /\ calls' = [calls EXCEPT ![id] =
                    Deferred(id, calls[id],
                             LoopBody(calls[id],
                                      ConcInputs[data[id]][calls[id].scan.bytes + 1]))]
    /\ pool' = PoolAfter(calls[id], calls'[id])
    /\ UNCHANGED <<data, op, mode, feed, run, consumedA, n, c, ended>>

\* Mode "conc": the input of one Valid call is over: scan.eof() and return.
ConcEnd(id) ==
    /\ mode = "conc" /\ id \in ValidIds
    /\ calls[id].pc = "loop"
    /\ calls[id].scan.bytes = Len(ConcInputs[data[id]])
    /\ calls' = [calls EXCEPT ![id] = Deferred(id, calls[id], AfterLoop(calls[id]))]
    /\ pool' = PoolAfter(calls[id], calls'[id])
    /\ UNCHANGED <<data, op, mode, feed, run, consumedA, n, c, ended>>

\* Mode "conc": a goroutine whose Valid call returned calls Valid again.
ValidAgain(id) ==
    /\ mode = "conc" /\ id \in ValidIds
    /\ calls[id].pc = "done"
    /\ run < MaxCalls
    /\ run' = run + 1
    /\ calls' = [calls EXCEPT ![id] = Call("start", ZeroScanner, Nil, 0)]
    /\ \E k \in 1..Len(ConcInputs) : data' = [data EXCEPT ![id] = k]
    /\ UNCHANGED <<op, mode, feed, consumedA, n, c, ended, pool>>

\* Mode "conc": the garbage collector empties scannerPool (sync.Pool keeps
\* what is put into it only until then).
PoolGC ==
    /\ mode = "conc"
    /\ pool # <<>>
    /\ pool' = <<>>
    /\ UNCHANGED <<data, op, mode, feed, calls, run, consumedA, n, c, ended>>

Next ==
    \/ \E id \in ValidIds : ValidBegin(id)
    \/ UnmarshalBegin
    \/ \E id \in CallIds : CheckValidBegin(id)
    \/ Feed
    \/ EndOfData
    \/ SecondScan

\* Valid and Unmarshal on one input, and a scanner used for two scans.
Spec == Init /\ [][Next]_vars

\* Mode "concat": a complete first value and whitespace after it have been
\* scanned; from here on the bytes of the input also go to a scan of their
\* own.
SecondValue ==
    /\ mode = "concat" /\ run = 1
    /\ calls["Whole"].pc = "loop"
    /\ feed.ph = "topws"
    /\ run' = 2 /\ consumedA' = n /\ n' = 0
    /\ feed' = FreeFeed
    /\ calls' = [calls EXCEPT !["Own"] = Call("start", calls["Own"].scan, Nil, 0)]
    /\ UNCHANGED <<data, op, mode, c, ended, pool>>

NextConcat ==
    \/ \E id \in CallIds : CheckValidBegin(id)
    \/ Feed
    \/ EndOfData
    \/ SecondValue

\* One input of two values, and its second part alone.
SpecConcat == InitConcat /\ [][NextConcat]_vars

NextDirect ==
    \/ DirectReset
    \/ DirectStep
    \/ DirectEof

\* A caller of the scanner's methods.
SpecDirect == InitDirect /\ [][NextDirect]_vars

NextConc ==
    \/ \E id \in ValidIds : ValidBegin(id)
    \/ \E id \in ValidIds : ConcFeed(id)
    \/ \E id \in ValidIds : ConcEnd(id)
    \/ \E id \in ValidIds : ValidAgain(id)
    \/ PoolGC

\* Two goroutines calling Valid.
SpecConc == InitConc /\ [][NextConc]_vars

\* ------------------------------------------------------------------ claims
Api == {"Valid", "Unmarshal"}

\* The scanner is inside a record: a `{` was taken as a record opening and
\* its `}` has not come.
InsideRecord(s) ==
    \E k \in 1..Len(s.parseState) :
        s.parseState[k] \in {"parseObjectKey", "parseObjectValue"}

PrematureEnd == <<"unexpected end of JSON input">>

Context(e) == IF Len(e.msg) = 3 THEN e.msg[3] ELSE ""

\* No byte of the input made the call's step fail or abort.
NoStepFailure(id) == calls[id].pc # "panic" /\ calls[id].line # 37

\* The input is whole and over, and the call returned nil.
AcceptedAtEnd(id) ==
    (ended /\ Complete(feed)) => (calls[id].pc = "done" /\ calls[id].ret = Nil)

\* C1: an input that ends inside an open record, none of whose bytes made
\* step fail, makes checkValid return the premature-end SyntaxError.
C1_TruncatedRecordRejected ==
    \A id \in CallIds :
        (calls[id].pc = "done" /\ calls[id].line \in {41, 43}
            /\ InsideRecord(calls[id].scan))
        => (calls[id].ret # Nil /\ calls[id].ret.msg = PrematureEnd)

C3_RecordValuesAccepted ==
    /\ (feed.kind = "form" /\ feed.named /\ feed.onlyRec)
       => (NoStepFailure("Unmarshal") /\ AcceptedAtEnd("Unmarshal"))
    /\ (feed.kind = "lit" /\ feed.k = 1)
       => (NoStepFailure("Unmarshal")
           /\ (ended => calls["Unmarshal"].pc = "done" /\ calls["Unmarshal"].ret = Nil))

\* Two record values, the second closed, ended the input and Unmarshal
\* returned nil.
C3_Witness ==
    /\ feed.kind = "form" /\ feed.named /\ feed.onlyRec /\ feed.v = 2
    /\ ended /\ Complete(feed) /\ c = Ch.rbrace
    /\ calls["Unmarshal"].pc = "done" /\ calls["Unmarshal"].ret = Nil

\* C4: Unmarshal returns nil for the profile value of TestUnmarshalAsn1,
\* whose record holds anonymous records of bare numbers.
C4_OidListAccepted ==
    (feed.kind = "lit" /\ feed.k = 3)
    => (NoStepFailure("Unmarshal")
        /\ (ended => calls["Unmarshal"].pc = "done" /\ calls["Unmarshal"].ret = Nil))

\* C5: `value1 X ::= NUL` makes checkValid return the malformed-NULL
\* SyntaxError, not nil.
C5_MisspelledNullRejected ==
    (feed.kind = "lit" /\ feed.k = 2 /\ ended)
    => \A id \in Api :
          /\ calls[id].ret # Nil
          /\ Context(calls[id].ret) \in {"in literal NULL (expecting 'U')",
                                         "in literal NULL (expecting 'L')"}

\* C6: with allowMultipleTopValues false, an input whose last byte is a
\* non-whitespace byte that came after the first top-level value was
\* complete makes checkValid return a SyntaxError.  (With the option false
\* the step function is stateEndTop after a byte other than `}` only when
\* that byte found the top-level value complete.)
C6_TrailingByteRejected ==
    \A id \in CallIds :
        (calls[id].pc = "done" /\ calls[id].line \in {41, 43} /\ n > 0
            /\ ~calls[id].scan.allowMultipleTopValues
            /\ calls[id].scan.step = "stateEndTop"
            /\ ~isSpace(c) /\ c # Ch.rbrace)
        => calls[id].ret # Nil

\* C7: Valid(data) is true exactly when Unmarshal(data, v) returns nil.
C7_ValidIffUnmarshal ==
    (calls["Valid"].pc = "done" /\ calls["Unmarshal"].pc = "done")
    => (ValidResult <=> calls["Unmarshal"].ret = Nil)

\* C8: on a scanner whose byte counter started at 0, a failure of step on
\* the byte at index i gives Offset i+1, and a failure at eof gives
\* Offset len(data).
C8_OffsetCountsBytes ==
    [][\A id \in CallIds :
          (calls[id].pc = "loop" /\ calls[id].scan.bytes = n)
          => /\ calls'[id].line = 37 => calls'[id].ret.Offset = n + 1
             /\ calls'[id].line = 41 => calls'[id].ret.Offset = n]_vars

\* Both entry points failed in step on the fourth byte or later, with the
\* Offset equal to the bytes delivered.
C8_Witness ==
    /\ n >= 4
    /\ \A id \in Api :
          calls[id].pc = "done" /\ calls[id].line = 37 /\ calls[id].ret.Offset = n
              /\ calls[id].scan.bytes = n

DepthExceeded(e) == Context(e) = "exceeded max depth"

\* The scanner of call id is as checkValid left it: Valid's deferred
\* freeScanner has not touched it.
AsScanned(id) == id \notin ValidIds \/ calls[id].pc = "loop"

\* C9: records nested maxNestingDepth deep and closed are accepted; the `{`
\* that pushes entry maxNestingDepth + 1 is rejected with "exceeded max
\* depth" at that byte, and nothing else raises that error.
C9_DepthBoundary ==
    /\ \A id \in CallIds :
          /\ AsScanned(id)
              => (DepthExceeded(calls[id].scan.err)
                  <=> Len(calls[id].scan.parseState) > maxNestingDepth)
          /\ Len(calls[id].scan.parseState) > maxNestingDepth
              => DepthExceeded(calls[id].scan.err)
    /\ (feed.kind = "lit" /\ feed.k = 4)
       => \A id \in Api :
             NoStepFailure(id) /\ (ended => calls[id].pc = "done" /\ calls[id].ret = Nil)
    /\ (feed.kind = "lit" /\ feed.k = 5)
       => \A id \in Api :
             /\ calls[id].pc # "panic"
             /\ n <= Len(HdrShort) + maxNestingDepth => calls[id].pc # "done"
             /\ n > Len(HdrShort) + maxNestingDepth
                => /\ calls[id].pc = "done" /\ calls[id].line = 37
                   /\ DepthExceeded(calls[id].ret)
                   /\ calls[id].ret.Offset = Len(HdrShort) + maxNestingDepth + 1

\* The `{` after maxNestingDepth open records was delivered and both entry
\* points returned the depth error.
C9_Witness ==
    /\ feed.kind = "lit" /\ feed.k = 5 /\ c = Ch.lbrace
    /\ \A id \in Api : calls[id].pc = "done" /\ DepthExceeded(calls[id].ret)

\* The second scan of mode "reuse" is under way in both scanners.
SecondScanBegun ==
    mode = "reuse" /\ run = 2
    /\ \A id \in {"Reused", "Fresh"} : calls[id].pc \in {"loop", "done", "panic"}

\* C10 as stated: the second scan of a reused scanner gives the verdict,
\* the message and the Offset of a fresh scanner on the same input.
C10_ReuseSameAsFresh ==
    SecondScanBegun
    => /\ calls["Reused"].pc = calls["Fresh"].pc
       /\ calls["Reused"].ret = calls["Fresh"].ret

\* C10 as amended: the second scan of a reused scanner gives the verdict
\* and the message of a fresh scanner on the same input, and an Offset
\* larger by the bytes the first scan consumed.
C10_ReuseShiftsOffset ==
    SecondScanBegun
    => /\ calls["Reused"].pc = calls["Fresh"].pc
       /\ calls["Reused"].line = calls["Fresh"].line
       /\ calls["Reused"].ret.msg = calls["Fresh"].ret.msg
       /\ calls["Reused"].ret # Nil
          => calls["Reused"].ret.Offset = calls["Fresh"].ret.Offset + consumedA

\* After a first scan that consumed bytes and set endTop, the second scan
\* failed in both scanners.
C10_Witness ==
    /\ SecondScanBegun /\ consumedA >= 4
    /\ calls["Reused"].pc = "done" /\ calls["Reused"].ret # Nil
    /\ calls["Reused"].line = 41
    /\ calls["Fresh"].ret # Nil

\* An error is recorded on the directly driven scanner.
ErrorRecorded == mode = "direct" /\ calls["Direct"].scan.err # Nil

\* C11: while an error is recorded, every call of step and of eof returns
\* scanError and leaves err, parseState, endTop and step as they were; only
\* reset ends this.
C11_ErrorLatched ==
    [][(ErrorRecorded /\ n' = n + 1 /\ op'.m # "reset")
       => /\ op'.r = "scanError"
          /\ calls'["Direct"].scan.err = calls["Direct"].scan.err
          /\ calls'["Direct"].scan.parseState = calls["Direct"].scan.parseState
          /\ calls'["Direct"].scan.endTop = calls["Direct"].scan.endTop
          /\ calls'["Direct"].scan.step = calls["Direct"].scan.step]_vars

\* C12: no call of step runs popParseState on an empty stack: no scan is
\* aborted by a run-time panic (a `}` met with an empty stack is answered
\* with scanError).
C12_NoPopOnEmptyStack == \A id \in CallIds : calls[id].pc # "panic"

\* The nesting stack of the call after k bytes of the value that follows
\* the header "ab X ::= h : " is st.
StackAfter(id, k, st) ==
    n = Len(HdrShort) + k => calls[id].scan.parseState = st

\* C13: `ab X ::= h : { { a 1 } }` is accepted: the inner `{` pushes a
\* level and marks the enclosing one as holding a value, and each `}`
\* closes one level without error.
C13_AnonymousRecordAccepted ==
    (feed.kind = "lit" /\ feed.k = 6)
    => \A id \in Api :
          /\ NoStepFailure(id)
          /\ ended => calls[id].pc = "done" /\ calls[id].ret = Nil
          /\ calls[id].pc = "loop"
             => /\ StackAfter(id, 1, <<"parseObjectKey">>)
                /\ StackAfter(id, 3, <<"parseObjectValue", "parseObjectKey">>)
                /\ StackAfter(id, 9, <<"parseObjectValue">>)
                /\ StackAfter(id, 11, <<>>)

\* The second `}` of `{ { a 1 } }` ended the input and both entry points
\* returned nil with an empty stack.
C13_Witness ==
    /\ feed.kind = "lit" /\ feed.k = 6 /\ ended /\ c = Ch.rbrace
    /\ \A id \in Api :
          calls[id].pc = "done" /\ calls[id].ret = Nil
              /\ calls[id].scan.parseState = <<>>

\* The scanner has read a whole number and waits for the byte after it.
InNumber(s) == s.step \in {"state1", "stateDot0", "stateE0"}

Top(s) == IF s.parseState = <<>> THEN "none" ELSE s.parseState[Len(s.parseState)]

\* Scanner t is scanner s after the value of a record member ended with the
\* delimiter b.
ValueEndedBy(s, t, b) ==
    /\ t.err = Nil
    /\ isSpace(b) => t.step = "stateEndValue" /\ t.parseState = s.parseState
    /\ b = Ch.comma
       => /\ t.step = "stateBeginObjectKey"
          /\ t.parseState = [s.parseState EXCEPT ![Len(s.parseState)] = "parseObjectKey"]
    /\ b = Ch.rbrace
       => /\ t.parseState = SubSeq(s.parseState, 1, Len(s.parseState) - 1)
          /\ t.step = IF Len(s.parseState) = 1 THEN "stateEndTop" ELSE "stateEndValue"

\* C14: a number that is the value of a record member is closed by the
\* whitespace, `}` or `,` after it, and that byte is handled as the end of
\* the value in the same step (`5` and `12345e+6` among them); the input
\* `ab X ::= h : 123`, which ends with the number, makes checkValid return
\* nil.
C14_NumberClosedByNextByte ==
    /\ [][\A id \in CallIds :
             (calls[id].pc = "loop" /\ n' = n + 1 /\ InNumber(calls[id].scan)
                 /\ Top(calls[id].scan) = "parseObjectValue"
                 /\ (isSpace(c') \/ c' = Ch.comma \/ c' = Ch.rbrace))
             => /\ calls'[id].pc = "loop"
                /\ ValueEndedBy(calls[id].scan, calls'[id].scan, c')]_vars
    /\ []((feed.kind = "lit" /\ feed.k \in {7, 8})
            => \A id \in Api :
                  NoStepFailure(id)
                  /\ (ended => calls[id].pc = "done" /\ calls[id].ret = Nil))

\* `12345e+6` was closed by `}` and `5` by `,` in the input of numbers, and
\* both entry points are scanning on.
C14_Witness ==
    /\ feed.kind = "lit" /\ feed.k = 7 /\ c = Ch.rbrace /\ n > Len(HdrShort) + 60
    /\ \A id \in Api :
          calls[id].pc = "loop" /\ calls[id].scan.step = "stateEndValue"

\* The input `ab X ::= h : 123` ended and both entry points returned nil.
NumberAtEndAccepted ==
    /\ feed.kind = "lit" /\ feed.k = 8 /\ ended
    /\ \A id \in Api : calls[id].pc = "done" /\ calls[id].ret = Nil

\* The call is inside checkValid with the scanner newScanner gave it.
InFlight(id) == calls[id].pc = "loop"

PoolAddrs == {pool[k].addr : k \in 1..Len(pool)}

\* No instance is held by two Valid calls under way, nor by one and by the
\* pool, nor twice by the pool.
PoolExclusive ==
    /\ \A i, j \in ValidIds :
          (i # j /\ InFlight(i) /\ InFlight(j))
          => calls[i].scan.addr # calls[j].scan.addr
    /\ \A i \in ValidIds :
          InFlight(i) => calls[i].scan.addr # 0 /\ calls[i].scan.addr \notin PoolAddrs
    /\ \A k, l \in 1..Len(pool) : pool[k].addr = pool[l].addr => k = l

\* C15: no scanner instance is held by two Valid calls that are under way,
\* nor by one and by the pool at once; and the step in which a Valid call
\* leaves checkValid (with nil, with an error, or aborted) puts its
\* instance back into the pool.
C15_PoolExclusiveAndReturned ==
    /\ []PoolExclusive
    /\ [][\A i \in ValidIds :
             (InFlight(i) /\ calls'[i].pc # "loop")
             => /\ calls'[i].scan.addr = calls[i].scan.addr
                /\ \E k \in 1..Len(pool') : pool'[k] = calls'[i].scan]_vars

\* One Valid call has returned an error and its instance lies in the pool,
\* while the other call is under way on another instance.
C15_Witness ==
    /\ mode = "conc"
    /\ calls["Valid"].pc = "done" /\ calls["Valid"].ret # Nil
    /\ \E k \in 1..Len(pool) : pool[k] = calls["Valid"].scan
    /\ InFlight("Valid2") /\ calls["Valid2"].scan.bytes >= 1
    /\ calls["Valid2"].scan.addr # calls["Valid"].scan.addr

\* C16 as stated: the nesting stack is never longer than maxNestingDepth,
\* the error state of a breached depth limit included.
C16_StackWithinLimit ==
    \A id \in CallIds : Len(calls[id].scan.parseState) <= maxNestingDepth

\* C16 as amended: the nesting stack is never longer than maxNestingDepth
\* + 1, and it is longer than maxNestingDepth only in the error state that
\* the breach of the depth limit leaves (the entry that broke the limit
\* stays on the stack).
C16_StackBounded ==
    \A id \in CallIds :
        /\ Len(calls[id].scan.parseState) <= maxNestingDepth + 1
        /\ Len(calls[id].scan.parseState) = maxNestingDepth + 1
           => /\ calls[id].scan.step = "stateError"
              /\ DepthExceeded(calls[id].scan.err)

\* A `{` broke the depth limit: both entry points returned the depth error
\* and the stack of Unmarshal's scanner holds maxNestingDepth + 1 entries
\* (Valid's went back to the pool).
C16_Witness ==
    /\ c = Ch.lbrace
    /\ \A id \in Api : calls[id].pc = "done" /\ DepthExceeded(calls[id].ret)
    /\ Len(calls["Unmarshal"].scan.parseState) = maxNestingDepth + 1

\* C17: endTop is true only after a complete top-level value: on a scanner
\* that does not restart (allowMultipleTopValues false), endTop true means
\* that the nesting stack is empty and the step function is stateEndTop.
C17_EndTopMeansValueComplete ==
    \A id \in CallIds :
        (calls[id].scan.endTop /\ ~calls[id].scan.allowMultipleTopValues)
        => /\ calls[id].scan.parseState = <<>>
           /\ calls[id].scan.step = "stateEndTop"

\* C18: with allowMultipleTopValues true, when checkValid rejects V2 on
\* its own with an error of step, it does not return nil for V1 +
\* whitespace + V2, V1 a complete value.
C18_SecondValueChecked ==
    (mode = "concat" /\ run = 2 /\ ended
        /\ calls["Own"].pc = "done" /\ calls["Own"].line = 37)
    => ~(calls["Whole"].pc = "done" /\ calls["Whole"].ret = Nil)

\* The call's step on the byte just delivered failed with this context, at
\* that byte.
FailedWith(call, context) ==
    /\ call.pc = "done" /\ call.line = 37
    /\ Context(call.ret) = context
    /\ call.ret.Offset = call.scan.bytes

\* C19: the assignment operator is the bytes `:`, `:`, `=` with nothing in
\* between: the first `:` is taken after the identifier or the Type only;
\* after it a `:` must come, any other byte fails with "(expected ':')";
\* after that a `=` must come, any other byte fails with "(expected '=')";
\* and what follows the operator is looked at only after the `=`.
C19_AssignmentOperatorExact ==
    [][\A id \in CallIds :
          (calls[id].pc = "loop" /\ n' = n + 1)
          => LET s == calls[id].scan
                 t == calls'[id].scan
             IN  /\ s.step = "stateAssignmentOperator1"
                    => IF c' = Ch.colon
                       THEN calls'[id].pc = "loop" /\ t.step = "stateAssignmentOperator2"
                       ELSE FailedWith(calls'[id], "in assignment operator (expected ':')")
                 /\ s.step = "stateAssignmentOperator2"
                    => IF c' = Ch.eq
                       THEN calls'[id].pc = "loop" /\ t.step = "stateBeginValueName"
                       ELSE FailedWith(calls'[id], "in assignment operator (expected '=')")
                 /\ t.step = "stateAssignmentOperator1"
                    => /\ c' = Ch.colon /\ s.step = "stateEndValue"
                       /\ Top(s) \in {"parseIdentifier", "parseType"}
                 /\ (t.step = "stateBeginValueName" /\ s.step # "stateBeginValueName")
                    => c' = Ch.eq /\ s.step = "stateAssignmentOperator2"]_vars

\* After `::` a byte other than `=` came, and both entry points returned
\* the error that names the expected '='.
C19_Witness ==
    /\ c # Ch.eq /\ n >= 5
    /\ \A id \in Api :
          FailedWith(calls[id], "in assignment operator (expected '=')")

\* The numeric-literal grammar (0|[1-9][0-9]*)(\.[0-9]+)?([eE][+-]?[0-9]+)?
\* as an automaton whose positions bear the names of the scanner's number
\* states: the position after byte b in position q, "none" if b cannot
\* follow.
NumNext(q, b) ==
    CASE q = "stateBeginValue" /\ b = Ch.d0 -> "state0"
      [] q = "stateBeginValue" /\ Ch.d1 <= b /\ b <= Ch.d9 -> "state1"
      [] q = "state1" /\ isDigit(b) -> "state1"
      [] q \in {"state0", "state1"} /\ b = Ch.dot -> "stateDot"
      [] q \in {"state0", "state1", "stateDot0"} /\ b \in {Ch.e, Ch.E} -> "stateE"
      [] q \in {"stateDot", "stateDot0"} /\ isDigit(b) -> "stateDot0"
      [] q = "stateE" /\ b \in {Ch.plus, Ch.minus} -> "stateESign"
      [] q \in {"stateE", "stateESign", "stateE0"} /\ isDigit(b) -> "stateE0"
      [] OTHER -> "none"

\* The positions in which the bytes so far are a whole number.
NumWhole == {"state0", "state1", "stateDot0", "stateE0"}

NumPositions ==
    {"stateBeginValue", "state0", "state1", "stateDot", "stateDot0", "stateE",
     "stateESign", "stateE0"}

\* C20: in the value position of a record member the scanner follows the
\* numeric-literal grammar: a byte the grammar allows next is taken (`0`
\* at the beginning included), a delimiter after a whole number ends the
\* value without error, and any other byte inside a number is rejected.
C20_NumberGrammar ==
    [][\A id \in CallIds :
          (calls[id].pc = "loop" /\ n' = n + 1
              /\ Top(calls[id].scan) = "parseObjectValue"
              /\ calls[id].scan.step \in NumPositions)
          => LET q == calls[id].scan.step
             IN  IF NumNext(q, c') # "none"
                 THEN /\ calls'[id].pc = "loop"
                      /\ calls'[id].scan.step = NumNext(q, c')
                 ELSE IF q = "stateBeginValue" THEN TRUE
                 ELSE IF q \in NumWhole
                         /\ (isSpace(c') \/ c' = Ch.comma \/ c' = Ch.rbrace)
                 THEN calls'[id].pc = "loop" /\ calls'[id].scan.err = Nil
                 ELSE calls'[id].pc = "done" /\ calls'[id].line = 37]_vars

\* The bytes an identifier or a Type is made of.
isNameByte(b) == isLiteral(b) \/ b = Ch.underscore

\* C21: a top-level identifier is a letter followed by any number of
\* letters, digits and underscores, ended by whitespace: after the first
\* letter and inside the identifier or the Type, whitespace ends the name
\* without error, a letter, digit or underscore goes on, and any other byte
\* fails with "in identifier or type".
C21_IdentifierGrammar ==
    [][\A id \in CallIds :
          (calls[id].pc = "loop" /\ n' = n + 1
              /\ calls[id].scan.step \in {"stateBeginName", "stateInName"})
          => IF isSpace(c')
             THEN calls'[id].pc = "loop" /\ calls'[id].scan.step = "stateEndValue"
             ELSE IF isNameByte(c')
             THEN calls'[id].pc = "loop" /\ calls'[id].scan.step = "stateInName"
             ELSE FailedWith(calls'[id], "in identifier or type")]_vars

\* C22: while a record key is read, a letter or digit goes on with the
\* key, whitespace ends it (the value of the member is looked for from the
\* next byte on), and any other byte is rejected with a syntax error.
C22_KeyIsAlphanumeric ==
    [][\A id \in CallIds :
          (calls[id].pc = "loop" /\ n' = n + 1
              /\ calls[id].scan.step = "stateInObjectKey")
          => IF isSpace(c')
             THEN /\ calls'[id].pc = "loop"
                  /\ calls'[id].scan.step = "stateBeginValue"
                  /\ Top(calls'[id].scan) = "parseObjectValue"
             ELSE IF isLiteral(c')
             THEN calls'[id].pc = "loop" /\ calls'[id].scan.step = "stateInObjectKey"
             ELSE calls'[id].pc = "done" /\ calls'[id].line = 37]_vars

\* The bytes that may come next inside the literal the scanner is reading
\* in step function f (every byte, for an f that reads no literal).
LiteralGoesOn(f, b) ==
    CASE f = "stateSuffixAfterHexadecimalString" -> b = Ch.H
      [] f \in {"stateInOctetString", "stateInHexadecimalString"} -> b >= 32
      [] f = "stateN" -> b = Ch.U
      [] f \in {"stateNu", "stateNul"} -> b = Ch.L
      [] f \in {"stateDot", "stateESign"} -> isDigit(b)
      [] f = "stateE" -> isDigit(b) \/ b \in {Ch.plus, Ch.minus}
      [] OTHER -> TRUE

\* The context of the error for a byte that breaks the literal.
LiteralContext(f) ==
    CASE f = "stateSuffixAfterHexadecimalString" -> "in hexadecimal string (expected 'H')"
      [] f = "stateInOctetString" -> "in string literal"
      [] f = "stateInHexadecimalString" -> "in hexadecimal string literal"
      [] f = "stateN" -> "in literal NULL (expecting 'U')"
      [] f \in {"stateNu", "stateNul"} -> "in literal NULL (expecting 'L')"
      [] f = "stateDot" -> "after decimal point in numeric literal"
      [] f \in {"stateE", "stateESign"} -> "in exponent of numeric literal"
      [] OTHER -> ""

\* C23: a malformed literal is rejected at the byte that breaks it, with
\* the message of that literal: a byte other than `H` after the closing
\* `'` of a hexadecimal string, a byte below 0x20 in an octet or
\* hexadecimal string, a byte other than `U`, `L`, `L` after `N`, a
\* non-digit after `.`, a non-digit after `e`/`E` and its optional sign;
\* every other byte inside these literals is taken without error.
C23_MalformedLiteralRejected ==
    [][\A id \in CallIds :
          (calls[id].pc = "loop" /\ n' = n + 1
              /\ LiteralContext(calls[id].scan.step) # "")
          => IF LiteralGoesOn(calls[id].scan.step, c')
             THEN calls'[id].pc = "loop" /\ calls'[id].scan.err = Nil
             ELSE FailedWith(calls'[id], LiteralContext(calls[id].scan.step))]_vars

\* Inside a record, the closing `'` of a hexadecimal string was followed by
\* a byte other than `H`, and both entry points returned the error of the
\* hexadecimal string.
C23_Witness ==
    /\ c # Ch.H
    /\ \A id \in Api :
          /\ FailedWith(calls[id], "in hexadecimal string (expected 'H')")
          /\ InsideRecord(calls[id].scan)

\* C24: a scanner in the pool never holds a stack buffer that grew beyond
\* the threshold of freeScanner during a scan: whenever the stack grew
\* beyond it, the instance put back has a nil parseState, whether the scan
\* ended in success or in an error.
C24_LargeStackDiscarded ==
    \A k \in 1..Len(pool) : pool[k].high <= poolMaxStack

HeaderContexts == {"parseIdentifier", "parseType", "parseValueName"}

\* The stack of s holds at most one header context, and only as its single
\* entry.
HeaderAlone(s) ==
    \A k \in 1..Len(s.parseState) :
        s.parseState[k] \in HeaderContexts => Len(s.parseState) = 1

\* Scanner t is scanner s after the byte b was taken without error, with
\* the opcode o: a record opening adds one entry, a record close removes
\* one and leads to stateEndTop exactly when the stack is empty again, and
\* every other byte inside a record leaves the length as it is and does not
\* lead to stateEndTop.
StackStep(s, t, b, o) ==
    LET d == Len(t.parseState) - Len(s.parseState)
    IN  /\ o = "scanBeginObject" <=>
              (b = Ch.lbrace /\ s.step \in {"stateBeginValue", "stateBeginObjectKeyOrEmpty"})
        /\ o = "scanBeginObject" => d = 1 /\ t.step # "stateEndTop"
        /\ o = "scanEndObject" =>
              /\ b = Ch.rbrace /\ InsideRecord(s) /\ d = -1
              /\ t.step = "stateEndTop" <=> t.parseState = <<>>
              /\ t.step = "stateEndValue" <=> t.parseState # <<>>
        /\ (InsideRecord(s) /\ o \notin {"scanBeginObject", "scanEndObject"}) =>
              d = 0 /\ t.step # "stateEndTop"
        /\ (InsideRecord(s) /\ b = Ch.comma /\ s.step = "stateEndValue") =>
              o = "scanObjectValue" /\ Top(t) = "parseObjectKey"
        /\ (s.step = "stateInObjectKey" /\ isSpace(b)) =>
              t.step = "stateBeginValue" /\ Top(t) = "parseObjectValue"

\* C25: in every state without error the nesting stack holds at most one
\* header context (identifier, type or value name), and only while no
\* record is open; a `{` taken as a record opening makes the stack longer
\* by exactly one, a `}` taken as a record close makes it shorter by exactly
\* one, `,` and the steps from key to value leave its length unchanged, and
\* the scanner enters stateEndTop for a record value exactly when the
\* length is back at zero.
C25_StackDiscipline ==
    /\ [](\A id \in CallIds : calls[id].scan.err = Nil => HeaderAlone(calls[id].scan))
    /\ [][\A id \in CallIds :
            (calls[id].pc = "loop" /\ n' = n + 1 /\ calls'[id].pc = "loop")
            => StackStep(calls[id].scan, calls'[id].scan, c',
                         step([calls[id].scan EXCEPT !.bytes = @ + 1], c').r)]_vars

\* Both entry points closed the inner of two open records with `}` and
\* went on in stateEndValue with one entry left.
C25_Witness ==
    /\ c = Ch.rbrace
    /\ \A id \in Api :
          /\ calls[id].pc = "loop"
          /\ calls[id].scan.step = "stateEndValue"
          /\ Len(calls[id].scan.parseState) = 1
          /\ calls[id].scan.high = 2

====
